---------------------------- MODULE Spec2Model ----------------------------
(***************************************************************************)
(* A model of the request-routing engine of Rocket:                        *)
(*   - URI segments and the character-scanning collider                    *)
(*     (src/lib/src/router/uri.rs, collider.rs),                            *)
(*   - the route table (src/lib/src/router/mod.rs),                         *)
(*   - the dispatch loop, the HEAD -> GET retry and the catcher chain       *)
(*     (src/core/lib/src/rocket.rs).                                        *)
(* Strings are sequences of one-character strings, so that the scanning    *)
(* code can be followed index by index.                                    *)
(***************************************************************************)
EXTENDS Integers, Sequences, FiniteSets, TLC

VARIABLES
    \* startup state
    routes,     \* Router.routes: HashMap<(Method, usize), Vec<Route>>
    added,      \* history: every route handed to Router::add, in call order
    cells,      \* the segment_count Cell of the path of each stored route
    phase,      \* "startup" while routes/catchers are registered, then "serving"
    catchers,   \* Rocket.catchers: the status codes that have a catcher
    default_catcher,    \* Rocket.default_catcher is Some
    collisions, \* what Router::has_collisions returned at launch and the
                \* pairs it printed
    \* Router::route of src/lib
    req,        \* the last (method, uri) handed to Router::route, <<>> if none
    matched,    \* the Option<&Route> it returned: <<>> is None, <<r>> is Some(r)
    \* one request in flight (src/core/lib/src/rocket.rs)
    pc,         \* where the request is: idle, route, process, handle_error, ...
    request,    \* [method, uri, route]: _set_method / set_route write to it
    was_head,   \* Rocket::dispatch: was_head_request
    data,       \* the remaining input (Data) held by Rocket::route
    matches,    \* the candidates of the running Rocket::route call
    idx,        \* position in matches of the next candidate
    outcome,    \* what Rocket::route returned: <<>> or <<[kind, ...]>>
    frames,     \* number of route_and_process calls on the stack
    status,     \* the status handle_error was called with
    caller,     \* who called handle_error
    catcher_result,     \* what the selected catcher returned: <<>> or <<[ok, ...]>>
    cookie_delta,       \* the cookie jar's delta: the tags of the cookies added
    response,   \* the response being built: <<>> or <<[by, status, body, cookies]>>
    \* history of the request in flight
    invoked,    \* positions (in added) of the route handlers invoked, in order
    inputs,     \* the Data each of them was given, in order
    returned,   \* [kind, code, method] of what each of them returned, with
                \* the request's method at the time, in order
    caught,     \* <<kind, status>> of every catcher / generator invoked, in order
    errors,     \* the statuses handle_error was called with, in order
    merges,     \* how many times the delta was merged into a response
    retries,    \* how many times the method was rewritten to GET
    issued,     \* how many responses were issued for the request
    \* one Request and its URIBuf (src/lib/src/request/request.rs, uri.rs)
    buf,        \* request.uri: [path, segment_count (the Cell), calls, scans]
    as_uri,     \* the URI made by as_uri: <<>> or <<[path, segment_count, ...]>>
    params,     \* request.params: <<>> is None, <<ps>> is Some(ps)
    result,     \* what the last call on the request returned
    mounted,    \* [at, base, template] of every route added by Rocket::mount
    tasks       \* the requests dispatched side by side, by task

routerVars == <<routes, added, cells, phase, collisions, req, matched>>

startupVars == <<catchers, default_catcher>>

sideVars == <<buf, as_uri, params, result, mounted, tasks>>

requestVars == <<pc, request, was_head, data, matches, idx, outcome, frames,
                 status, caller, catcher_result, cookie_delta, response>>

historyVars == <<invoked, inputs, returned, caught, errors, merges, retries,
                 issued>>

vars == <<routes, added, cells, phase, collisions, catchers, default_catcher, req, matched,
          pc, request, was_head, data, matches, idx, outcome, frames,
          status, caller, catcher_result, cookie_delta, response,
          invoked, inputs, returned, caught, errors, merges, retries, issued,
          buf, as_uri, params, result, mounted, tasks>>

-----------------------------------------------------------------------------
(* Bounds and input sets *)

\* at most this many Router::add calls during startup
MaxRoutes == 2

Methods == {"GET", "HEAD"}

Ranks == {0, 1}

\* route templates handed to Route::new / Route::ranked
Templates == {
    <<"/">>,
    <<"/", "a">>,
    <<"/", "b">>,
    <<"/", "a", "a">>,
    <<"/", "<", "a", ">">>,
    <<"/", "a", "/", "b">>,
    <<"/", "a", "/", "<", "b", ">">> }

\* concrete request paths
Paths == {
    <<"/">>,
    <<"/", "a">>,
    <<"/", "b">>,
    <<"/", "a", "a">>,
    <<"/", "a", "/", "b">>,
    <<"/", "/", "a", "/">> }

RoutePool == [method : Methods, rank : Ranks, path : Templates]

\* the Data a request arrives with, and the Data values a Forward can carry
InitialData == "d0"

DataValues == {"d0", "d1"}

-----------------------------------------------------------------------------
(* URI segments: src/lib/src/router/uri.rs *)

\* index (1-based) of the first character of s at or after position i that
\* satisfies / does not satisfy "is a slash"; Len(s) + 1 when there is none
RECURSIVE SkipWhile(_, _, _)
SkipWhile(s, i, slash) ==
    IF i > Len(s) THEN Len(s) + 1
    ELSE IF (s[i] = "/") = slash THEN SkipWhile(s, i + 1, slash)
    ELSE i

\* a str is the sequence of its bytes; a character of more than one byte is
\* its first byte followed by continuation bytes, written "+"
IsCharBoundary(s, i) == i > Len(s) \/ s[i] # "+"

\* the number of characters among the bytes i..j of s
CharCount(s, i, j) == Cardinality({k \in i..j : s[k] # "+"})

\* the j of Segments::next: rest.chars().enumerate() counts characters up to
\* the next separator and the count is added to the byte index i; without a
\* separator it is self.0.len()
SegmentEnd(s, i) ==
    LET sep == SkipWhile(s, i, FALSE)
    IN  IF sep > Len(s) THEN Len(s) + 1
        ELSE i + CharCount(s, i, sep - 1)

\* Segments::next, iterated until it returns None (or panics in a slice
\* that does not end on a character boundary: nothing more is yielded)
RECURSIVE Segments(_)
Segments(s) ==
    LET i == SkipWhile(s, 1, TRUE)
    IN  IF i > Len(s) THEN << >>
        ELSE LET j == SegmentEnd(s, i)
             IN  IF ~IsCharBoundary(s, j) THEN << >>
                 ELSE <<SubSeq(s, i, j - 1)>>
                          \o Segments(SubSeq(s, j, Len(s)))

\* the iteration panics: &self.0[i..j] with j inside a character
RECURSIVE SegmentsPanics(_)
SegmentsPanics(s) ==
    LET i == SkipWhile(s, 1, TRUE)
    IN  IF i > Len(s) THEN FALSE
        ELSE LET j == SegmentEnd(s, i)
             IN  IF ~IsCharBoundary(s, j) THEN TRUE
                 ELSE SegmentsPanics(SubSeq(s, j, Len(s)))

\* URI::segment_count / URIBuf::segment_count
segment_count(s) == Len(Segments(s))

-----------------------------------------------------------------------------
(* The collider: src/lib/src/router/collider.rs *)

\* the while loop of index_match_until, cursors 0-based as in the source;
\* << >> is None, <<i, j>> is Some((i, j))
RECURSIVE index_match_loop(_, _, _, _, _, _)
index_match_loop(break_c, a, b, i, j, delta) ==
    IF i >= 0 /\ j >= 0 /\ i < Len(a) /\ j < Len(b)
    THEN LET c1 == a[i + 1]
             c2 == b[j + 1]
         IN  IF c1 = break_c \/ c2 = break_c THEN <<i, j>>
             ELSE IF c1 # c2 THEN << >>
             ELSE index_match_loop(break_c, a, b, i + delta, j + delta, delta)
    ELSE <<i, j>>

index_match_until(break_c, a, b, dir) ==
    IF dir THEN index_match_loop(break_c, a, b, 0, 0, 1)
    ELSE index_match_loop(break_c, a, b, Len(a) - 1, Len(b) - 1, -1)

do_match_until(break_c, a, b, dir) ==
    index_match_until(break_c, a, b, dir) # << >>

\* a variant that compares the two segments character by character
StrCollidesExact(a, b) == a = b

\* a variant in which only a parameter on the left stands for any segment
StrCollidesOneSided(a, b) == (a # << >> /\ a[1] = "<") \/ a = b

\* impl Collider<str> for &str
StrCollides(a, b) ==
    do_match_until("<", a, b, TRUE) /\ do_match_until(">", a, b, FALSE)

\* a variant that takes two paths to collide when their segments are equal
URICollidesEqual(a, b) == Segments(a) = Segments(b)

\* impl Collider for URI
URICollides(a, b) ==
    LET segs_a == Segments(a)
        segs_b == Segments(b)
    IN  IF Len(segs_a) # Len(segs_b) THEN FALSE
        ELSE \A k \in 1..Len(segs_a) : StrCollides(segs_a[k], segs_b[k])

\* impl Collider for URIBuf, of the paths of the two
URIBufCollides(a, b) == URICollides(a, b)

\* impl Collider<URI> for URIBuf: self.as_uri().collides_with(other)
URIBufCollidesWithURI(b, uri) == URICollides(b, uri)

\* impl Collider<URIBuf> for URI: other.as_uri().collides_with(self)
URICollidesWithURIBuf(uri, b) == URICollides(b, uri)

\* impl Collider<Route> for &str: the string as a path against the route's
\* path, whatever the method
StrCollidesWithRoute(s, r) == URICollides(s, r.path)

\* Route: Collider<str>, the filter of Router::route (r.collides_with(uri)):
\* the route's path against the request uri
RouteCollidesWithStr(r, uri) == URICollides(r.path, uri)

\* a template segment with no dynamic span
IsStatic(seg) == \A k \in 1..Len(seg) : seg[k] # "<" /\ seg[k] # ">"

\* a template segment that is one dynamic parameter, "<name>"
IsDynamic(seg) ==
    /\ Len(seg) >= 2
    /\ seg[1] = "<"
    /\ seg[Len(seg)] = ">"
    /\ \A k \in 2..(Len(seg) - 1) : seg[k] # "<" /\ seg[k] # ">"

-----------------------------------------------------------------------------
(* The route table: src/lib/src/router/mod.rs *)

\* a variant keyed by the length of the path, not by its segment count
SelectorByLength(route) == <<route.method, Len(route.path)>>

\* (route.method, route.path.segment_count())
Selector(route) == <<route.method, segment_count(route.path)>>

\* a variant that keeps one copy of a route
PushedUnlessPresent(rs, route) ==
    LET sel == <<route.method, segment_count(route.path)>>
    IN  IF sel \in DOMAIN rs
        THEN IF \E k \in 1..Len(rs[sel]) : rs[sel][k] = route
             THEN rs
             ELSE [rs EXCEPT ![sel] = Append(@, route)]
        ELSE rs @@ (sel :> <<route>>)

\* self.routes.entry(selector).or_insert(vec![]).push(route)
Pushed(rs, route) ==
    LET sel == Selector(route)
    IN  IF sel \in DOMAIN rs
        THEN [rs EXCEPT ![sel] = Append(@, route)]
        ELSE rs @@ (sel :> <<route>>)

\* the loop of Router::route over one bucket: the first route that passes
\* the filter is kept, later ones are only printed
RECURSIVE FirstMatch(_, _, _)
FirstMatch(bucket, uri, matched_route) ==
    IF bucket = << >> THEN matched_route
    ELSE LET route == Head(bucket)
         IN  IF RouteCollidesWithStr(route, uri) /\ matched_route = << >>
             THEN FirstMatch(Tail(bucket), uri, <<route>>)
             ELSE FirstMatch(Tail(bucket), uri, matched_route)

\* Router::route
RouterRoute(rs, method, uri) ==
    LET sel == <<method, segment_count(uri)>>
    IN  IF sel \in DOMAIN rs THEN FirstMatch(rs[sel], uri, << >>) ELSE << >>

\* a variant that compares the paths of routes of different methods too
RouteCollidesAnyMethod(a, b) ==
    IF segment_count(a.path) # segment_count(b.path) THEN FALSE
    ELSE URICollides(a.path, b.path)

\* impl Collider for Route
RouteCollides(a, b) ==
    IF segment_count(a.path) # segment_count(b.path) \/ a.method # b.method
    THEN FALSE
    ELSE URICollides(a.path, b.path)

\* the pairs (routes[i], routes[j]), i < j, of one bucket that collide
CollidingPairs(bucket) ==
    {<<bucket[i], bucket[j]>> : <<i, j>> \in
        {ij \in (1..Len(bucket)) \X (1..Len(bucket)) :
            /\ ij[1] < ij[2]
            /\ RouteCollides(bucket[ij[1]], bucket[ij[2]])}}

\* a variant that compares the paths of all the routes of the table,
\* whichever bucket they are in
has_collisions_across(rs) ==
    LET all == UNION {{rs[sel][k] : k \in 1..Len(rs[sel])} : sel \in DOMAIN rs}
        reported == {ab \in all \X all :
                        ab[1] # ab[2] /\ URICollides(ab[1].path, ab[2].path)}
    IN  [result |-> reported # {}, reported |-> reported]

\* Router::has_collisions: the result and the pairs it prints
has_collisions(rs) ==
    LET reported == UNION {CollidingPairs(rs[sel]) : sel \in DOMAIN rs}
    IN  [result |-> reported # {}, reported |-> reported]

-----------------------------------------------------------------------------
(* Requests and their URIs: src/lib/src/request/request.rs, uri.rs *)

\* at most this many segment_count() calls on one instance
MaxCalls == 2

\* at most this many routes mounted before launch
MaxMounts == 2

\* URIBuf::from / URI::new: the Cell starts as None
NewURI(path) == [path |-> path, segment_count |-> << >>, calls |-> 0,
                 scans |-> 0]

\* a variant that returns the count without storing it in the Cell
segment_count_uncached(u) ==
    [u EXCEPT !.calls = @ + 1, !.scans = @ + 1]

\* URI::segment_count / URIBuf::segment_count on the instance u: the
\* instance after the call; the Cell is filled by the first call
segment_count_cached(u) ==
    IF u.segment_count = << >>
    THEN [u EXCEPT !.segment_count = <<Len(Segments(u.path))>>,
                   !.calls = @ + 1, !.scans = @ + 1]
    ELSE [u EXCEPT !.calls = @ + 1]

\* what the call returns: the count held by the Cell, or the fresh count
segment_count_value(u) ==
    IF u.segment_count = << >> THEN Len(Segments(u.path))
    ELSE u.segment_count[1]

\* a variant that finds the selector without filling the Cell
StoredCellUnscanned(path) ==
    [segment_count |-> NewURI(path).segment_count, writes |-> 0]

\* the Cell of route.path when Router::add pushes the route: the selector was
\* made with route.path.segment_count(), which fills the Cell; writes counts
\* the Cell::set calls on the route from then on
StoredCell(path) ==
    [segment_count |-> segment_count_cached(NewURI(path)).segment_count,
     writes |-> 0]

\* segment_count() on the path of a stored route: the Cell is set when it
\* is empty
CountRead(cell, path) ==
    IF cell.segment_count = << >>
    THEN [segment_count |-> <<Len(Segments(path))>>, writes |-> cell.writes + 1]
    ELSE cell

\* the tasks that dispatch requests side by side
Tasks == {1, 2}

IdleTask ==
    [pc |-> "idle", method |-> "GET", uri |-> <<"/">>, route |-> 0,
     matches |-> << >>, idx |-> 1, delta |-> {}, seen |-> << >>,
     response |-> << >>, connected |-> TRUE, sent |-> << >>]

-----------------------------------------------------------------------------
(* Router specification: startup adds, then lookups *)

\* Rocket::custom: an empty router, no catcher, no request
Init ==
    /\ routes = << >>
    /\ added = << >>
    /\ cells = << >>
    /\ phase = "startup"
    /\ collisions = [result |-> FALSE, reported |-> {}]
    /\ catchers = {}
    /\ default_catcher = FALSE
    /\ req = << >>
    /\ matched = << >>
    /\ pc = "idle"
    /\ request = [method |-> "GET", uri |-> <<"/">>, route |-> 0]
    /\ was_head = FALSE
    /\ data = InitialData
    /\ matches = << >>
    /\ idx = 1
    /\ outcome = << >>
    /\ frames = 0
    /\ status = 0
    /\ caller = "none"
    /\ catcher_result = << >>
    /\ cookie_delta = {}
    /\ response = << >>
    /\ invoked = << >>
    /\ inputs = << >>
    /\ returned = << >>
    /\ caught = << >>
    /\ errors = << >>
    /\ merges = 0
    /\ retries = 0
    /\ issued = 0
    /\ buf = NewURI(<<"/">>)
    /\ as_uri = << >>
    /\ params = << >>
    /\ result = << >>
    /\ mounted = {}
    /\ tasks = [t \in Tasks |-> IdleTask]

RouterInit == Init

\* Router::add
Add(route) ==
    /\ phase = "startup"
    /\ Len(added) < MaxRoutes
    /\ routes' = Pushed(routes, route)
    /\ added' = Append(added, route)
    /\ cells' = Append(cells, StoredCell(route.path))
    /\ UNCHANGED <<sideVars, phase, collisions, req, matched, startupVars, requestVars,
                   historyVars>>

\* Rocket::launch: has_collisions is run for the warning, the table is frozen
\* and serving begins
Launch ==
    /\ phase = "startup"
    /\ collisions' = has_collisions(routes)
    /\ phase' = "serving"
    /\ UNCHANGED <<sideVars, routes, added, cells, req, matched, startupVars,
                   requestVars, historyVars>>

\* one call of Router::route
Lookup(method, uri) ==
    /\ phase = "serving"
    /\ req' = <<method, uri>>
    /\ matched' = RouterRoute(routes, method, uri)
    /\ cells' = IF \A k \in 1..Len(cells) : cells[k].segment_count # << >>
                THEN cells
                ELSE LET sel == <<method, segment_count(uri)>>
                     IN  [k \in 1..Len(cells) |->
                             IF Selector(added[k]) = sel
                             THEN CountRead(cells[k], added[k].path)
                             ELSE cells[k]]
    /\ UNCHANGED <<sideVars, routes, added, phase, collisions, startupVars, requestVars,
                   historyVars>>

RouterNext ==
    \/ \E route \in RoutePool : Add(route)
    \/ Launch
    \/ \E method \in Methods, uri \in Paths : Lookup(method, uri)

RouterSpec == RouterInit /\ [][RouterNext]_vars

-----------------------------------------------------------------------------
(* Request specification: routes are mounted, then one request at a time  *)
(* is created and asked for its segment count, parameters and segments     *)

\* the paths requests are created with
UriPaths == {
    << >>,
    <<"a", "/", "b">>,
    <<"/", "m", "/", "a", "/", "b">>,
    <<"/", "/", "a", "/", "/", "/", "b", "/", "/">> }

\* the strings handed to URI::new: "E" is the first byte of a character of
\* two bytes
SegmentInputs == {
    <<"a", "/", "b">>,
    <<"/", "/", "a", "/", "/", "/", "b", "/", "/">>,
    <<"E", "+", "a">>,
    <<"/", "E", "+", "/", "a">> }

\* the bases and the routes handed to Rocket::mount
MountBases == { <<"/", "m">>, <<"/", "m", "/">> }

MountTemplates == { <<"/", "a">>, <<"a", "/", "<", "b", ">">> }

MountRoutes == [method : {"GET"}, rank : {0}, path : MountTemplates]

\* the parameter indices and segment indices asked for
Indices == 0..2

\* route.get_params(uri): the segments of the uri at the positions where the
\* route's template has a dynamic segment, in order
RECURSIVE get_params_from(_, _, _)
get_params_from(tsegs, psegs, k) ==
    IF k > Len(tsegs) \/ k > Len(psegs) THEN << >>
    ELSE (IF IsDynamic(tsegs[k]) THEN <<psegs[k]>> ELSE << >>)
             \o get_params_from(tsegs, psegs, k + 1)

get_params(template, path) ==
    get_params_from(Segments(template), Segments(path), 1)

\* a variant that joins base and path without a separator between them
MountAtNoSeparator(base, route) ==
    LET r == [route EXCEPT !.path = base \o route.path]
    IN  /\ phase = "startup"
        /\ Len(added) < MaxMounts
        /\ routes' = Pushed(routes, r)
        /\ added' = Append(added, r)
        /\ cells' = Append(cells, StoredCell(r.path))
        /\ mounted' = mounted \cup {[at |-> Len(added) + 1, base |-> base,
                                     template |-> route.path]}
        /\ UNCHANGED <<phase, collisions, req, matched, startupVars,
                       requestVars, historyVars, buf, as_uri, params, result,
                       tasks>>

\* Rocket::mount of src/lib, one route of the vector: the path becomes
\* format!("{}/{}", base, route.path) and the route is added
MountAt(base, route) ==
    LET r == [route EXCEPT !.path = base \o <<"/">> \o route.path]
    IN  /\ phase = "startup"
        /\ Len(added) < MaxMounts
        /\ routes' = Pushed(routes, r)
        /\ added' = Append(added, r)
        /\ cells' = Append(cells, StoredCell(r.path))
        /\ mounted' = mounted \cup {[at |-> Len(added) + 1, base |-> base,
                                     template |-> route.path]}
        /\ UNCHANGED <<phase, collisions, req, matched, startupVars,
                       requestVars, historyVars, buf, as_uri, params, result,
                       tasks>>

\* URI::new(path).segments().collect(), as eq_segments does
CollectSegments(path) ==
    /\ result' = <<"segments", path,
                   IF SegmentsPanics(path) THEN "panic" ELSE "Ok",
                   Segments(path)>>
    /\ UNCHANGED <<routerVars, startupVars, requestVars, historyVars,
                   buf, as_uri, params, mounted, tasks>>

\* Request::mock: a request with no parameters bound and a fresh URIBuf
NewRequest(path) ==
    /\ buf' = NewURI(path)
    /\ as_uri' = << >>
    /\ params' = << >>
    /\ result' = << >>
    /\ UNCHANGED <<routerVars, startupVars, requestVars, historyVars,
                   mounted, tasks>>

\* URIBuf::segment_count on request.uri
SegmentCount ==
    /\ buf.calls < MaxCalls
    /\ result' = <<"segment_count", 0, "Ok", segment_count_value(buf)>>
    /\ buf' = segment_count_cached(buf)
    /\ UNCHANGED <<routerVars, startupVars, requestVars, historyVars,
                   as_uri, params, mounted, tasks>>

\* URIBuf::as_uri: a URI of the same path with a clone of the Cell
AsUri ==
    /\ as_uri' = <<[NewURI(buf.path) EXCEPT
                       !.segment_count = buf.segment_count]>>
    /\ UNCHANGED <<routerVars, startupVars, requestVars, historyVars,
                   buf, params, result, mounted, tasks>>

\* URI::segment_count on the URI made by as_uri
UriSegmentCount ==
    /\ as_uri # << >>
    /\ as_uri[1].calls < MaxCalls
    /\ result' = <<"segment_count", 0, "Ok", segment_count_value(as_uri[1])>>
    /\ as_uri' = <<segment_count_cached(as_uri[1])>>
    /\ UNCHANGED <<routerVars, startupVars, requestVars, historyVars,
                   buf, params, mounted, tasks>>

\* Request::set_params with a route that Router::route returned for the path
SetParams(i) ==
    /\ i \in 1..Len(added)
    /\ segment_count(added[i].path) = segment_count(buf.path)
    /\ RouteCollidesWithStr(added[i], buf.path)
    /\ params' = <<get_params(added[i].path, buf.path)>>
    /\ result' = << >>
    /\ UNCHANGED <<routerVars, startupVars, requestVars, historyVars,
                   buf, as_uri, mounted, tasks>>

\* Request::get_param(n): what the call returns.  The debug! line is
\* evaluated only when the debug log level is enabled, and it unwraps the
\* parameters
get_param(n, converts, debug_enabled) ==
    IF params = << >> \/ n >= Len(params[1])
    THEN IF debug_enabled /\ params = << >>
         THEN <<"get_param", n, "panic", << >> >>
         ELSE <<"get_param", n, "NoKey", << >> >>
    ELSE IF converts THEN <<"get_param", n, "Ok", params[1][n + 1]>>
         ELSE <<"get_param", n, "BadParse", << >> >>

\* one call of Request::get_param
GetParam(n, converts, debug_enabled) ==
    /\ result' = get_param(n, converts, debug_enabled)
    /\ UNCHANGED <<routerVars, startupVars, requestVars, historyVars,
                   buf, as_uri, params, mounted, tasks>>

\* a variant that hands all the segments of the path to the conversion
get_segments_all(i, converts) ==
    IF i >= segment_count_value(buf)
    THEN <<"get_segments", i, "NoKey", << >> >>
    ELSE <<"get_segments", i, IF converts THEN "Ok" ELSE "BadParse",
           Segments(buf.path)>>

\* Request::get_segments(i): what the call returns, with the segments that
\* were handed to from_segments; self.uri() is a URI made by as_uri
get_segments(i, converts) ==
    IF i >= segment_count_value(buf)
    THEN <<"get_segments", i, "NoKey", << >> >>
    ELSE <<"get_segments", i, IF converts THEN "Ok" ELSE "BadParse",
           SubSeq(Segments(buf.path), i + 1, Len(Segments(buf.path)))>>

\* one call of Request::get_segments
GetSegments(i, converts) ==
    /\ result' = get_segments(i, converts)
    /\ UNCHANGED <<routerVars, startupVars, requestVars, historyVars,
                   buf, as_uri, params, mounted, tasks>>

\* the status codes the program names
NotFound == 404

BadRequest == 400

InternalServerError == 500

\* the responders a handler of src/lib can return: a string, a Stream, and
\* Option and Result around them, outermost first
Responders == { <<"Str">>, <<"Stream">>, <<"None">>, <<"Err">>,
                <<"Some", "Stream">>, <<"Ok", "None">> }

\* what happens to the writes of a responder: all succeed, the response
\* cannot be started, or a write fails after the start
Writes == {"ok", "start_err", "write_err"}

\* a responder that writes can meet every fault, one that is None or Err
\* writes nothing
WritesOf(responder) ==
    IF responder[Len(responder)] \in {"None", "Err"} THEN {"ok"} ELSE Writes

\* Responder::respond(res): the outcome, the status of a Forward, whether
\* writing to res has begun, and whether res comes back fresh
RECURSIVE respond(_, _)
respond(responder, io) ==
    IF Head(responder) \in {"Some", "Ok"} THEN respond(Tail(responder), io)
    ELSE IF Head(responder) = "None"
    THEN [outcome |-> "Forward", status |-> NotFound, begun |-> FALSE,
          fresh |-> TRUE]
    ELSE IF Head(responder) = "Err"
    THEN [outcome |-> "Forward", status |-> InternalServerError,
          begun |-> FALSE, fresh |-> TRUE]
    ELSE [outcome |-> IF io = "ok" THEN "Success" ELSE "Failure",
          status |-> 0, begun |-> io # "start_err", fresh |-> FALSE]

\* handle_error of src/lib: the catcher of the code, or the one of 500 when
\* there is none; the catchers of 404 and 500 are there from ignite on
LibCatcher(code) ==
    IF code \in {NotFound, InternalServerError} THEN code
    ELSE InternalServerError

\* a variant that hands a failed response to the catcher of 500 as well
ProcessResponderCatchFailure(responder, io) ==
    LET o == respond(responder, io)
    IN  IF o.outcome \in {"Forward", "Failure"}
        THEN [outcome |-> o.outcome, status |-> o.status, begun |-> o.begun,
              catcher |-> <<LibCatcher(o.status)>>, fresh |-> o.fresh,
              responses |-> IF o.fresh THEN 1 ELSE 2]
        ELSE [outcome |-> o.outcome, status |-> o.status, begun |-> o.begun,
              catcher |-> << >>, fresh |-> o.fresh, responses |-> 1]

\* dispatch of src/lib once the handler returned a responder: respond, and
\* hand a forwarded response to handle_error, which writes to it
ProcessResponder(responder, io) ==
    LET o == respond(responder, io)
    IN  IF o.outcome = "Forward"
        THEN [outcome |-> o.outcome, status |-> o.status, begun |-> o.begun,
              catcher |-> <<LibCatcher(o.status)>>, fresh |-> o.fresh,
              responses |-> 1]
        ELSE [outcome |-> o.outcome, status |-> o.status, begun |-> o.begun,
              catcher |-> << >>, fresh |-> o.fresh, responses |-> 1]

\* the handler of the route whose parameters were set returns a responder
Respond(responder, io) ==
    /\ params # << >>
    /\ result' = <<"respond", responder, io, ProcessResponder(responder, io)>>
    /\ UNCHANGED <<routerVars, startupVars, requestVars, historyVars,
                   buf, as_uri, params, mounted, tasks>>

RequestNext ==
    \/ \E responder \in Responders :
           \E io \in WritesOf(responder) : Respond(responder, io)
    \/ \E path \in SegmentInputs : CollectSegments(path)
    \/ \E base \in MountBases, route \in MountRoutes : MountAt(base, route)
    \/ \E path \in UriPaths : NewRequest(path)
    \/ SegmentCount
    \/ AsUri
    \/ UriSegmentCount
    \/ \E i \in 1..MaxMounts : SetParams(i)
    \/ \E n \in Indices, converts \in BOOLEAN, debug_enabled \in BOOLEAN :
           GetParam(n, converts, debug_enabled)
    \/ \E i \in Indices, converts \in BOOLEAN : GetSegments(i, converts)

RequestSpec == Init /\ [][RequestNext]_vars

-----------------------------------------------------------------------------
(* Dispatch inputs *)

DispatchMethods == {"GET", "HEAD", "POST"}

\* the routes an application mounts
MountPool == {
    [method |-> "HEAD", rank |-> 0, path |-> <<"/", "a">>],
    [method |-> "GET",  rank |-> 0, path |-> <<"/", "a">>],
    [method |-> "GET",  rank |-> 1, path |-> <<"/", "<", "a", ">">>] }

\* the bases routes are mounted at: the root, one with a query and one that
\* is no origin-form URI
CoreMountBases == { <<"/">>, <<"/", "?", "q">>, <<"m">> }

\* the paths requested
RequestPaths == { <<"/", "a">>, <<"/", "b">> }

\* the status codes catchers are registered for
CatcherCodes == {404, 500}

\* the statuses a handler or a catcher fails with
FailStatuses == {404, 500}

\* the tag of a cookie added by a catcher; a cookie added by the handler of
\* the route at position k of added has tag k
CatcherCookie == 0

-----------------------------------------------------------------------------
(* The candidates of a request.  Rocket::route iterates                    *)
(* self.router.route(request); the routing rule is the one of the runtime  *)
(* matching and candidates contract.                                        *)

\* runtime matching of one template segment against one path segment
SegmentAccepts(tseg, pseg) ==
    IF IsDynamic(tseg) THEN pseg # << >> ELSE tseg = pseg

RuntimeMatches(template, uri) ==
    /\ segment_count(template) = segment_count(uri)
    /\ \A k \in 1..segment_count(template) :
           SegmentAccepts(Segments(template)[k], Segments(uri)[k])

\* rank order, ties in add order
TriedBefore(i, j) ==
    \/ added[i].rank < added[j].rank
    \/ added[i].rank = added[j].rank /\ i <= j

RECURSIVE OrderByRank(_)
OrderByRank(S) ==
    IF S = {} THEN << >>
    ELSE LET m == CHOOSE i \in S : \A j \in S : TriedBefore(i, j)
         IN  <<m>> \o OrderByRank(S \ {m})

\* positions in added of the candidates, in the order they are to be tried
Candidates(method, uri) ==
    OrderByRank({i \in 1..Len(added) :
                    /\ added[i].method = method
                    /\ RuntimeMatches(added[i].path, uri)})

-----------------------------------------------------------------------------
(* Outcomes and responses *)

Success(r) == <<[kind |-> "Success", resp |-> r, code |-> 0, rest |-> "none"]>>

Failure(s) == <<[kind |-> "Failure", resp |-> << >>, code |-> s, rest |-> "none"]>>

Forward(d) == <<[kind |-> "Forward", resp |-> << >>, code |-> 0, rest |-> d]>>

\* the body a producer sets: the handlers of the routes of rank 1 stream a
\* body of unknown size (Body::Chunked), every other body is Body::Sized with
\* its size n
BodySize(who, id) ==
    IF who = "route" /\ added[id].rank = 1 THEN "chunked" ELSE "n"

\* a response: who produced it, its status, whether it has a body, and how
\* many Set-Cookie headers it carries for each cookie tag
NewResponse(who, id, s) ==
    [by |-> <<who, id>>, status |-> s, body |-> TRUE, server |-> FALSE,
     cookies |-> << >>, size |-> BodySize(who, id)]

\* response.adjoin_header(cookie) for each cookie of the taken delta
Adjoined(r, jar) ==
    [r EXCEPT !.cookies =
        [t \in (DOMAIN r.cookies) \cup jar |->
            (IF t \in DOMAIN r.cookies THEN r.cookies[t] ELSE 0)
          + (IF t \in jar THEN 1 ELSE 0)]]

\* crate::catcher::default(status, req): the built-in generator
BuiltinResponse(s) == NewResponse("builtin", s, s)

-----------------------------------------------------------------------------
(* Startup: src/core/lib/src/rocket.rs mount / register *)

\* Origin::parse_owned(base) is Ok: an origin-form URI begins with a slash
ParsesAsOrigin(base) == base # << >> /\ base[1] = "/"

\* base_uri.query().is_some()
HasQuery(base) == \E k \in 1..Len(base) : base[k] = "?"

\* the path in normal form: one separator before every segment
RECURSIVE Normalized(_)
Normalized(segs) ==
    IF segs = << >> THEN << >>
    ELSE <<"/">> \o Head(segs) \o Normalized(Tail(segs))

\* route.map_base(|old| format!("{}{}", base, old)): the route's base is "/"
\* before it is mounted, and the path is put behind the new base
map_base(base, route) ==
    LET joined == Segments(base \o <<"/">> \o <<"/">> \o route.path)
    IN  [route EXCEPT !.path =
            IF joined = << >> THEN <<"/">> ELSE Normalized(joined)]

\* a variant that does not look at the base
MountUnchecked(base, route) ==
    /\ phase = "startup"
    /\ Len(added) < MaxMounts
    /\ mounted' = mounted \cup {[at |-> Len(added) + 1, base |-> base,
                                 template |-> route.path]}
    /\ routes' = Pushed(routes, map_base(base, route))
    /\ added' = Append(added, map_base(base, route))
    /\ cells' = Append(cells, StoredCell(map_base(base, route).path))
    /\ UNCHANGED <<phase, collisions, req, matched, startupVars, requestVars,
                   historyVars, buf, as_uri, params, result, tasks>>

\* Rocket::mount, one route of the vector: a base that does not parse or has
\* a query panics before any route is looked at, otherwise
\* self.router.add(route) with the route behind the base
Mount(base, route) ==
    /\ phase = "startup"
    /\ Len(added) < MaxMounts
    /\ mounted' = mounted \cup {[at |-> Len(added) + 1, base |-> base,
                                 template |-> route.path]}
    /\ IF ~ParsesAsOrigin(base) \/ HasQuery(base)
       THEN /\ phase' = "aborted"
            /\ UNCHANGED <<routes, added, cells>>
       ELSE /\ routes' = Pushed(routes, map_base(base, route))
            /\ added' = Append(added, map_base(base, route))
            /\ cells' = Append(cells, StoredCell(map_base(base, route).path))
            /\ UNCHANGED phase
    /\ UNCHANGED <<collisions, req, matched, startupVars, requestVars,
                   historyVars, buf, as_uri, params, result, tasks>>

\* Rocket::register, one catcher with code Some(code)
Register(code) ==
    /\ phase = "startup"
    /\ catchers' = catchers \cup {code}
    /\ UNCHANGED <<sideVars, routerVars, default_catcher, requestVars, historyVars>>

\* Rocket::register, one catcher with code None
RegisterDefault ==
    /\ phase = "startup"
    /\ default_catcher' = TRUE
    /\ UNCHANGED <<sideVars, routerVars, catchers, requestVars, historyVars>>

\* self.router.collisions() of the core router: the pairs of routes that
\* collide and have equal rank
RankedCollisions ==
    {ij \in (1..Len(added)) \X (1..Len(added)) :
        /\ ij[1] < ij[2]
        /\ added[ij[1]].rank = added[ij[2]].rank
        /\ RouteCollides(added[ij[1]], added[ij[2]])}

\* Rocket::launch with prelaunch_check: a collision is an error and nothing
\* is served, otherwise the table is frozen and serving begins
LaunchChecked ==
    /\ phase = "startup"
    /\ phase' = IF RankedCollisions # {} THEN "failed" ELSE "serving"
    /\ UNCHANGED <<sideVars, routes, added, cells, collisions, req, matched, startupVars,
                   requestVars, historyVars>>

-----------------------------------------------------------------------------
(* One request: hyper_service_fn, dispatch, route_and_process, route *)

FreshHistory(errs) ==
    /\ invoked' = << >>
    /\ inputs' = << >>
    /\ returned' = << >>
    /\ caught' = << >>
    /\ errors' = errs
    /\ merges' = 0
    /\ retries' = 0
    /\ issued' = 0

\* hyper_service_fn with a request that converts; Rocket::dispatch up to the
\* first self.router.route(request) of Rocket::route
Receive(method, uri) ==
    /\ phase = "serving"
    /\ pc \in {"idle", "done"}
    /\ request' = [method |-> method, uri |-> uri, route |-> 0]
    /\ was_head' = (method = "HEAD")
    /\ data' = InitialData
    /\ matches' = Candidates(method, uri)
    /\ idx' = 1
    /\ outcome' = << >>
    /\ frames' = 1
    /\ status' = 0
    /\ caller' = "none"
    /\ catcher_result' = << >>
    /\ cookie_delta' = {}
    /\ response' = << >>
    /\ pc' = "route"
    /\ FreshHistory(<< >>)
    /\ result' = << >>
    /\ UNCHANGED <<routerVars, startupVars, buf, as_uri, params, mounted,
                   tasks>>

\* hyper_service_fn with a request that does not convert: handle_error is
\* called with BadRequest and a dummy GET request
ReceiveBad ==
    /\ phase = "serving"
    /\ pc \in {"idle", "done"}
    /\ request' = [method |-> "GET", uri |-> <<"/">>, route |-> 0]
    /\ was_head' = FALSE
    /\ data' = InitialData
    /\ matches' = << >>
    /\ idx' = 1
    /\ outcome' = << >>
    /\ frames' = 0
    /\ status' = BadRequest
    /\ caller' = "hyper_service_fn"
    /\ catcher_result' = << >>
    /\ cookie_delta' = {}
    /\ response' = << >>
    /\ pc' = "handle_error"
    /\ FreshHistory(<<BadRequest>>)
    /\ result' = << >>
    /\ UNCHANGED <<routerVars, startupVars, buf, as_uri, params, mounted,
                   tasks>>

\* the parameters a handler reads from the request: none before the first
\* set_route, then those of the route last set
ParamsOf(r) ==
    IF r.route = 0 THEN << >>
    ELSE <<get_params(added[r.route].path, r.uri)>>

\* a variant without set_route: the handler runs on the request as it is
HandledStale(adds, kind, code, rest) ==
    /\ pc = "route"
    /\ idx <= Len(matches)
    /\ request' = request
    /\ invoked' = Append(invoked, matches[idx])
    /\ inputs' = Append(inputs, data)
    /\ returned' = Append(returned, [kind |-> kind, code |-> code,
                                     method |-> request.method,
                                     adds |-> adds, rest |-> rest,
                                     saw |-> ParamsOf(request)])
    /\ cookie_delta' = IF adds THEN cookie_delta \cup {matches[idx]}
                       ELSE cookie_delta

\* the part of one loop iteration of Rocket::route that every outcome shares:
\* set_route, then the handler runs on the current data and may add a cookie
Handled(adds, kind, code, rest) ==
    /\ pc = "route"
    /\ idx <= Len(matches)
    /\ request' = [request EXCEPT !.route = matches[idx]]
    /\ invoked' = Append(invoked, matches[idx])
    /\ inputs' = Append(inputs, data)
    /\ returned' = Append(returned, [kind |-> kind, code |-> code,
                                     method |-> request.method,
                                     adds |-> adds, rest |-> rest,
                                     saw |-> ParamsOf(
                                         [request EXCEPT !.route = matches[idx]])])
    /\ cookie_delta' = IF adds THEN cookie_delta \cup {matches[idx]}
                       ELSE cookie_delta

\* a variant without the return: the outcome is kept and the loop goes on
HandlerSuccessGoesOn(adds) ==
    /\ Handled(adds, "Success", 0, "none")
    /\ outcome' = Success(NewResponse("route", matches[idx], 200))
    /\ idx' = idx + 1
    /\ UNCHANGED <<sideVars, routerVars, startupVars, pc, was_head, data, matches,
                   frames, status, caller, catcher_result, response,
                   caught, errors, merges, retries, issued>>

\* the handler returns Success: Rocket::route returns it
HandlerSuccess(adds) ==
    /\ Handled(adds, "Success", 0, "none")
    /\ outcome' = Success(NewResponse("route", matches[idx], 200))
    /\ pc' = "process"
    /\ UNCHANGED <<sideVars, routerVars, startupVars, was_head, data, matches, idx,
                   frames, status, caller, catcher_result, response,
                   caught, errors, merges, retries, issued>>

\* the handler returns Failure(s): Rocket::route returns it
HandlerFailure(adds, s) ==
    /\ Handled(adds, "Failure", s, "none")
    /\ outcome' = Failure(s)
    /\ pc' = "process"
    /\ UNCHANGED <<sideVars, routerVars, startupVars, was_head, data, matches, idx,
                   frames, status, caller, catcher_result, response,
                   caught, errors, merges, retries, issued>>

\* a variant that does not move to the next route: the same handler again
HandlerForwardStays(adds, unused_data) ==
    /\ Handled(adds, "Forward", 0, unused_data)
    /\ data' = unused_data
    /\ UNCHANGED <<sideVars, routerVars, startupVars, pc, was_head, matches, idx,
                   outcome, frames, status, caller, catcher_result, response,
                   caught, errors, merges, retries, issued>>

\* a variant that drops the returned data: the next handler gets the old data
HandlerForwardKeepsData(adds, unused_data) ==
    /\ Handled(adds, "Forward", 0, unused_data)
    /\ idx' = idx + 1
    /\ UNCHANGED <<sideVars, routerVars, startupVars, pc, was_head, data, matches,
                   outcome, frames, status, caller, catcher_result, response,
                   caught, errors, merges, retries, issued>>

\* the handler returns Forward(unused_data): the loop goes on with it
HandlerForward(adds, unused_data) ==
    /\ Handled(adds, "Forward", 0, unused_data)
    /\ data' = unused_data
    /\ idx' = idx + 1
    /\ UNCHANGED <<sideVars, routerVars, startupVars, pc, was_head, matches, outcome,
                   frames, status, caller, catcher_result, response,
                   caught, errors, merges, retries, issued>>

\* the loop of Rocket::route is over: Outcome::Forward(data)
RouteExhausted ==
    /\ pc = "route"
    /\ idx > Len(matches)
    /\ outcome' = Forward(data)
    /\ pc' = "process"
    /\ UNCHANGED <<sideVars, routerVars, startupVars, request, was_head, data, matches,
                   idx, frames, status, caller, catcher_result, cookie_delta,
                   response, historyVars>>

\* route_and_process, Outcome::Success(response)
ProcessSuccess ==
    /\ pc = "process"
    /\ outcome[1].kind = "Success"
    /\ response' = <<outcome[1].resp>>
    /\ pc' = "merge"
    /\ UNCHANGED <<sideVars, routerVars, startupVars, request, was_head, data, matches,
                   idx, outcome, frames, status, caller, catcher_result,
                   cookie_delta, historyVars>>

\* a variant that retries every request that is not a GET request
AutoHeadAnyMethod ==
    /\ pc = "process"
    /\ outcome[1].kind = "Forward"
    /\ request.method # "GET"
    /\ request' = [request EXCEPT !.method = "GET"]
    /\ retries' = retries + 1
    /\ frames' = frames + 1
    /\ data' = outcome[1].rest
    /\ matches' = Candidates("GET", request.uri)
    /\ idx' = 1
    /\ outcome' = << >>
    /\ pc' = "route"
    /\ UNCHANGED <<sideVars, routerVars, startupVars, was_head, status, caller,
                   catcher_result, cookie_delta, response,
                   invoked, inputs, returned, caught, errors, merges, issued>>

\* route_and_process, Outcome::Forward(data) of a HEAD request: the method
\* is set to GET and route_and_process is called again with the data
AutoHead ==
    /\ pc = "process"
    /\ outcome[1].kind = "Forward"
    /\ request.method = "HEAD"
    /\ request' = [request EXCEPT !.method = "GET"]
    /\ retries' = retries + 1
    /\ frames' = frames + 1
    /\ data' = outcome[1].rest
    /\ matches' = Candidates("GET", request.uri)
    /\ idx' = 1
    /\ outcome' = << >>
    /\ pc' = "route"
    /\ UNCHANGED <<sideVars, routerVars, startupVars, was_head, status, caller,
                   catcher_result, cookie_delta, response,
                   invoked, inputs, returned, caught, errors, merges, issued>>

\* route_and_process, Outcome::Forward(data) otherwise: handle_error(404)
ProcessForward ==
    /\ pc = "process"
    /\ outcome[1].kind = "Forward"
    /\ request.method # "HEAD"
    /\ status' = NotFound
    /\ errors' = Append(errors, NotFound)
    /\ caller' = "route_and_process"
    /\ pc' = "handle_error"
    /\ UNCHANGED <<sideVars, routerVars, startupVars, request, was_head, data, matches,
                   idx, outcome, frames, catcher_result, cookie_delta,
                   response, invoked, inputs, returned, caught, merges, retries, issued>>

\* a variant that treats every failure as not-found
ProcessFailureAsNotFound ==
    /\ pc = "process"
    /\ outcome[1].kind = "Failure"
    /\ status' = NotFound
    /\ errors' = Append(errors, NotFound)
    /\ caller' = "route_and_process"
    /\ pc' = "handle_error"
    /\ UNCHANGED <<sideVars, routerVars, startupVars, request, was_head, data, matches,
                   idx, outcome, frames, catcher_result, cookie_delta,
                   response, invoked, inputs, returned, caught, merges,
                   retries, issued>>

\* route_and_process, Outcome::Failure(status): handle_error(status)
ProcessFailure ==
    /\ pc = "process"
    /\ outcome[1].kind = "Failure"
    /\ status' = outcome[1].code
    /\ errors' = Append(errors, outcome[1].code)
    /\ caller' = "route_and_process"
    /\ pc' = "handle_error"
    /\ UNCHANGED <<sideVars, routerVars, startupVars, request, was_head, data, matches,
                   idx, outcome, frames, catcher_result, cookie_delta,
                   response, invoked, inputs, returned, caught, merges, retries, issued>>

-----------------------------------------------------------------------------
(* Rocket::handle_error *)

Ok(r) == <<[ok |-> TRUE, resp |-> r, code |-> 0]>>

Err(s) == <<[ok |-> FALSE, resp |-> << >>, code |-> s]>>

\* what a catcher registered under id can return for a status
CatcherResults(who, id, s) ==
    {Ok(NewResponse(who, id, s))} \cup {Err(e) : e \in FailStatuses}

\* a variant without reset_delta: the catcher adds to what the handlers left
InvokeCatcherKeepsDelta ==
    /\ pc = "handle_error"
    /\ status \in catchers
    /\ \E adds \in BOOLEAN :
          cookie_delta' = IF adds THEN cookie_delta \cup {CatcherCookie}
                          ELSE cookie_delta
    /\ caught' = Append(caught, <<"catcher", status>>)
    /\ \E res \in CatcherResults("catcher", status, status) :
          catcher_result' = res
    /\ pc' = "catcher_result"
    /\ UNCHANGED <<sideVars, routerVars, startupVars, request, was_head, data, matches,
                   idx, outcome, frames, status, caller, response,
                   invoked, inputs, returned, errors, merges, retries, issued>>

\* reset_delta, then the catcher registered for the status runs
InvokeCatcher ==
    /\ pc = "handle_error"
    /\ status \in catchers
    /\ \E adds \in BOOLEAN :
          cookie_delta' = IF adds THEN {CatcherCookie} ELSE {}
    /\ caught' = Append(caught, <<"catcher", status>>)
    /\ \E res \in CatcherResults("catcher", status, status) :
          catcher_result' = res
    /\ pc' = "catcher_result"
    /\ UNCHANGED <<sideVars, routerVars, startupVars, request, was_head, data, matches,
                   idx, outcome, frames, status, caller, response,
                   invoked, inputs, returned, errors, merges, retries, issued>>

\* a variant that prefers the default catcher whenever there is one
InvokeDefaultCatcherFirst ==
    /\ pc = "handle_error"
    /\ default_catcher
    /\ \E adds \in BOOLEAN :
          cookie_delta' = IF adds THEN {CatcherCookie} ELSE {}
    /\ caught' = Append(caught, <<"default", status>>)
    /\ \E res \in CatcherResults("default", 0, status) :
          catcher_result' = res
    /\ pc' = "catcher_result"
    /\ UNCHANGED <<sideVars, routerVars, startupVars, request, was_head, data, matches,
                   idx, outcome, frames, status, caller, response,
                   invoked, inputs, returned, errors, merges, retries, issued>>

\* reset_delta, no catcher for the status: the default catcher runs
InvokeDefaultCatcher ==
    /\ pc = "handle_error"
    /\ status \notin catchers
    /\ default_catcher
    /\ \E adds \in BOOLEAN :
          cookie_delta' = IF adds THEN {CatcherCookie} ELSE {}
    /\ caught' = Append(caught, <<"default", status>>)
    /\ \E res \in CatcherResults("default", 0, status) :
          catcher_result' = res
    /\ pc' = "catcher_result"
    /\ UNCHANGED <<sideVars, routerVars, startupVars, request, was_head, data, matches,
                   idx, outcome, frames, status, caller, response,
                   invoked, inputs, returned, errors, merges, retries, issued>>

\* a variant that installs the built-in generator as the default catcher
InvokeBuiltinInstalls ==
    /\ pc = "handle_error"
    /\ status \notin catchers
    /\ ~default_catcher
    /\ default_catcher' = TRUE
    /\ cookie_delta' = {}
    /\ caught' = Append(caught, <<"builtin", status>>)
    /\ catcher_result' = Ok(BuiltinResponse(status))
    /\ pc' = "catcher_result"
    /\ UNCHANGED <<sideVars, routerVars, catchers, request, was_head, data,
                   matches, idx, outcome, frames, status, caller, response,
                   invoked, inputs, returned, errors, merges, retries, issued>>

\* reset_delta, neither exists: crate::catcher::default(status, req)
InvokeBuiltin ==
    /\ pc = "handle_error"
    /\ status \notin catchers
    /\ ~default_catcher
    /\ cookie_delta' = {}
    /\ caught' = Append(caught, <<"builtin", status>>)
    /\ catcher_result' = Ok(BuiltinResponse(status))
    /\ pc' = "catcher_result"
    /\ UNCHANGED <<sideVars, routerVars, startupVars, request, was_head, data, matches,
                   idx, outcome, frames, status, caller, response,
                   invoked, inputs, returned, errors, merges, retries, issued>>

\* where handle_error returns to
AfterHandleError ==
    IF caller = "route_and_process" THEN "merge" ELSE "issue"

\* match response { Ok(r) => r, ... }
CatcherReturnedOk ==
    /\ pc = "catcher_result"
    /\ catcher_result[1].ok
    /\ response' = <<catcher_result[1].resp>>
    /\ pc' = AfterHandleError
    /\ UNCHANGED <<sideVars, routerVars, startupVars, request, was_head, data, matches,
                   idx, outcome, frames, status, caller, catcher_result,
                   cookie_delta, historyVars>>

\* a variant whose fallback fails too: the expect panics, no response
CatcherReturnedErrPanics ==
    /\ pc = "catcher_result"
    /\ ~catcher_result[1].ok
    /\ pc' = "panicked"
    /\ UNCHANGED <<sideVars, routerVars, startupVars, request, was_head, data, matches,
                   idx, outcome, frames, status, caller, catcher_result,
                   cookie_delta, response, historyVars>>

\* a variant that falls back to the generator for the original status
CatcherReturnedErrSameStatus ==
    /\ pc = "catcher_result"
    /\ ~catcher_result[1].ok
    /\ caught' = Append(caught, <<"builtin", status>>)
    /\ response' = <<BuiltinResponse(status)>>
    /\ pc' = AfterHandleError
    /\ UNCHANGED <<sideVars, routerVars, startupVars, request, was_head, data, matches,
                   idx, outcome, frames, status, caller, catcher_result,
                   cookie_delta, invoked, inputs, returned, errors, merges,
                   retries, issued>>

\* a variant that falls back to the user's catcher for 500 when there is one
CatcherReturnedErrUserCatcher ==
    /\ pc = "catcher_result"
    /\ ~catcher_result[1].ok
    /\ caught' = Append(caught,
                        IF InternalServerError \in catchers
                        THEN <<"catcher", InternalServerError>>
                        ELSE <<"builtin", InternalServerError>>)
    /\ response' = <<IF InternalServerError \in catchers
                     THEN NewResponse("catcher", InternalServerError,
                                      InternalServerError)
                     ELSE BuiltinResponse(InternalServerError)>>
    /\ pc' = AfterHandleError
    /\ UNCHANGED <<sideVars, routerVars, startupVars, request, was_head, data, matches,
                   idx, outcome, frames, status, caller, catcher_result,
                   cookie_delta, invoked, inputs, returned, errors, merges,
                   retries, issued>>

\* match response { ..., Err(err_status) => Rocket's default 500 }
CatcherReturnedErr ==
    /\ pc = "catcher_result"
    /\ ~catcher_result[1].ok
    /\ caught' = Append(caught, <<"builtin", InternalServerError>>)
    /\ response' = <<BuiltinResponse(InternalServerError)>>
    /\ pc' = AfterHandleError
    /\ UNCHANGED <<sideVars, routerVars, startupVars, request, was_head, data, matches,
                   idx, outcome, frames, status, caller, catcher_result,
                   cookie_delta, invoked, inputs, returned, errors, merges, retries,
                   issued>>

-----------------------------------------------------------------------------
(* The tail of route_and_process and of dispatch *)

\* take_delta_jar and the adjoin_header loop; this call then returns
MergeCookies ==
    /\ pc = "merge"
    /\ response' = <<Adjoined(response[1], cookie_delta)>>
    /\ cookie_delta' = {}
    /\ merges' = merges + 1
    /\ frames' = frames - 1
    /\ pc' = IF frames > 1 THEN "return" ELSE "finish"
    /\ UNCHANGED <<sideVars, routerVars, startupVars, request, was_head, data, matches,
                   idx, outcome, status, caller, catcher_result,
                   invoked, inputs, returned, caught, errors, retries, issued>>

\* a variant without the early return: the caller goes on to the cookies
ReturnRetryThenMerges ==
    /\ pc = "return"
    /\ pc' = "merge"
    /\ UNCHANGED <<sideVars, routerVars, startupVars, request, was_head, data, matches,
                   idx, outcome, frames, status, caller, catcher_result,
                   cookie_delta, response, historyVars>>

\* the calling route_and_process: return try_next.await, before the cookies
ReturnRetry ==
    /\ pc = "return"
    /\ frames' = frames - 1
    /\ pc' = IF frames > 1 THEN "return" ELSE "finish"
    /\ UNCHANGED <<sideVars, routerVars, startupVars, request, was_head, data, matches,
                   idx, outcome, status, caller, catcher_result, cookie_delta,
                   response, historyVars>>

\* response.strip_body(): the content is dropped, what the body declared
\* about its size stays
strip_body(r) == [r EXCEPT !.body = FALSE]

\* a variant that looks at the method after routing, not before it
FinishByCurrentMethod ==
    /\ pc = "finish"
    /\ response' = <<IF request.method = "HEAD"
                     THEN strip_body([response[1] EXCEPT !.server = TRUE])
                     ELSE [response[1] EXCEPT !.server = TRUE]>>
    /\ pc' = "issue"
    /\ UNCHANGED <<sideVars, routerVars, startupVars, request, was_head, data, matches,
                   idx, outcome, frames, status, caller, catcher_result,
                   cookie_delta, historyVars>>

\* a variant that strips the body of a route's response only
FinishRouteResponseOnly ==
    /\ pc = "finish"
    /\ response' = <<IF was_head /\ response[1].by[1] = "route"
                     THEN strip_body([response[1] EXCEPT !.server = TRUE])
                     ELSE [response[1] EXCEPT !.server = TRUE]>>
    /\ pc' = "issue"
    /\ UNCHANGED <<sideVars, routerVars, startupVars, request, was_head, data, matches,
                   idx, outcome, frames, status, caller, catcher_result,
                   cookie_delta, historyVars>>

\* Rocket::dispatch after route_and_process: the Server header, and the
\* body is stripped if the request was a HEAD request
Finish ==
    /\ pc = "finish"
    /\ response' = <<IF was_head
                     THEN strip_body([response[1] EXCEPT !.server = TRUE])
                     ELSE [response[1] EXCEPT !.server = TRUE]>>
    /\ pc' = "issue"
    /\ UNCHANGED <<sideVars, routerVars, startupVars, request, was_head, data, matches,
                   idx, outcome, frames, status, caller, catcher_result,
                   cookie_delta, historyVars>>

\* a variant that sets Content-Length from the content that is left
write_response_by_content(r) ==
    [status |-> r.status, by |-> r.by, server |-> r.server,
     cookies |-> r.cookies,
     content_length |-> IF r.size = "none" \/ ~r.body THEN "0"
                        ELSE IF r.size = "chunked" THEN "absent"
                        ELSE r.size,
     body |-> r.body]

\* write_response: the hyper response handed to tx.  Status and headers are
\* copied; Content-Length is "0" when the response has no body, the size of
\* the body when body.size() is known, and not set otherwise; then the
\* content of the body is streamed
write_response(r) ==
    [status |-> r.status, by |-> r.by, server |-> r.server,
     cookies |-> r.cookies,
     content_length |-> IF r.size = "none" THEN "0"
                        ELSE IF r.size = "chunked" THEN "absent"
                        ELSE r.size,
     body |-> r.body]

\* a variant that drops the response of a request that did not convert
IssueResponseUnlessBad ==
    /\ pc = "issue"
    /\ issued' = IF caller = "hyper_service_fn" THEN issued ELSE issued + 1
    /\ result' = IF caller = "hyper_service_fn" THEN result
                 ELSE <<"sent", write_response(response[1])>>
    /\ pc' = "done"
    /\ UNCHANGED <<routerVars, startupVars, request, was_head, data, matches,
                   idx, outcome, frames, status, caller, catcher_result,
                   cookie_delta, response, invoked, inputs, returned, caught,
                   errors, merges, retries, buf, as_uri, params, mounted,
                   tasks>>

\* issue_response: write_response sends the response
IssueResponse ==
    /\ pc = "issue"
    /\ issued' = issued + 1
    /\ result' = <<"sent", write_response(response[1])>>
    /\ pc' = "done"
    /\ UNCHANGED <<routerVars, startupVars, request, was_head, data, matches,
                   idx, outcome, frames, status, caller, catcher_result,
                   cookie_delta, response, invoked, inputs, returned, caught, errors,
                   merges, retries, buf, as_uri, params, mounted, tasks>>

-----------------------------------------------------------------------------
(* The specification of startup followed by requests *)

Startup ==
    \/ \E base \in CoreMountBases, route \in MountPool : Mount(base, route)
    \/ \E code \in CatcherCodes : Register(code)
    \/ RegisterDefault
    \/ LaunchChecked

\* the steps of the request in flight
Step ==
    \/ \E adds \in BOOLEAN : HandlerSuccess(adds)
    \/ \E adds \in BOOLEAN, s \in FailStatuses : HandlerFailure(adds, s)
    \/ \E adds \in BOOLEAN, d \in DataValues : HandlerForward(adds, d)
    \/ RouteExhausted
    \/ ProcessSuccess
    \/ AutoHead
    \/ ProcessForward
    \/ ProcessFailure
    \/ InvokeCatcher
    \/ InvokeDefaultCatcher
    \/ InvokeBuiltin
    \/ CatcherReturnedOk
    \/ CatcherReturnedErr
    \/ MergeCookies
    \/ ReturnRetry
    \/ Finish
    \/ IssueResponse

Next ==
    \/ Startup
    \/ \E method \in DispatchMethods, uri \in RequestPaths : Receive(method, uri)
    \/ ReceiveBad
    \/ Step

Spec == Init /\ [][Next]_vars

\* a request task that can take a step is eventually polled again
FairSpec == Spec /\ WF_vars(Step)

-----------------------------------------------------------------------------
(* Several requests at once: hyper_service_fn spawns one task per request, *)
(* every task owns its Request and shares the Rocket behind an Arc         *)

\* the methods of the requests dispatched side by side
TaskMethods == {"GET"}

\* tokio::spawn in hyper_service_fn: Request::from_hyp builds the request of
\* this task, and Rocket::route asks the router for its matches
TaskReceive(t, method, uri) ==
    /\ phase = "serving"
    /\ tasks[t].pc \in {"idle", "done"}
    /\ tasks' = [tasks EXCEPT ![t] =
           [pc |-> "route", method |-> method, uri |-> uri, route |-> 0,
            matches |-> Candidates(method, uri), idx |-> 1, delta |-> {},
            seen |-> << >>, response |-> << >>, connected |-> TRUE,
            sent |-> << >>]]
    /\ UNCHANGED <<routerVars, startupVars, requestVars, historyVars,
                   buf, as_uri, params, result, mounted>>

\* request.set_route(route) of the loop of Rocket::route
TaskSetRoute(t) ==
    /\ tasks[t].pc = "route"
    /\ tasks[t].idx <= Len(tasks[t].matches)
    /\ tasks' = [tasks EXCEPT ![t].route = tasks[t].matches[tasks[t].idx],
                              ![t].pc = "handle"]
    /\ UNCHANGED <<routerVars, startupVars, requestVars, historyVars,
                   buf, as_uri, params, result, mounted>>

\* tx.send(response) of write_response: Err when the receiver was dropped,
\* and then nothing reaches the client
Sent(connected, resp) == IF connected THEN resp ELSE << >>

\* the client goes away while its request is in flight: hyper drops the
\* future of hyper_service_fn and with it rx; the task that was spawned for
\* the request is detached and is not cancelled
TaskDisconnect(t) ==
    /\ tasks[t].pc \in {"route", "handle"}
    /\ tasks[t].connected
    /\ tasks' = [tasks EXCEPT ![t].connected = FALSE]
    /\ UNCHANGED <<routerVars, startupVars, requestVars, historyVars,
                   buf, as_uri, params, result, mounted>>

\* what the task becomes when its handler has run: the handler reads the
\* parameters of its request and may add a cookie to the jar of its request;
\* Success is answered with the cookies of the jar, Failure goes to
\* handle_error (reset_delta, built-in generator), Forward to the next match
AfterHandler(t, kind, s, adds) ==
    LET T     == tasks[t]
        jar   == IF adds THEN T.delta \cup {<<t, T.matches[T.idx]>>}
                 ELSE T.delta
        entry == [route |-> T.matches[T.idx], params |-> ParamsOf(T),
                  kind |-> kind, code |-> s, adds |-> adds,
                  connected |-> T.connected]
        resp  == IF kind = "Success"
                 THEN <<Adjoined(NewResponse("route", T.matches[T.idx], 200),
                                 jar)>>
                 ELSE IF kind = "Failure" THEN <<BuiltinResponse(s)>>
                 ELSE << >>
    IN  [T EXCEPT
            !.seen = Append(@, entry),
            !.delta = IF kind = "Forward" THEN jar ELSE {},
            !.idx = IF kind = "Forward" THEN @ + 1 ELSE @,
            !.pc = IF kind = "Forward" THEN "route" ELSE "done",
            !.response = resp,
            !.sent = Sent(T.connected, resp)]

\* a variant with one cookie jar for all requests
TaskHandleSharedJar(t, kind, s, adds) ==
    /\ tasks[t].pc = "handle"
    /\ tasks' = [u \in Tasks |->
           IF u = t THEN AfterHandler(t, kind, s, adds)
           ELSE [tasks[u] EXCEPT !.delta =
                    IF adds /\ tasks[u].pc \in {"route", "handle"}
                    THEN @ \cup {<<t, tasks[t].matches[tasks[t].idx]>>}
                    ELSE @]]
    /\ UNCHANGED <<routerVars, startupVars, requestVars, historyVars,
                   buf, as_uri, params, result, mounted>>

\* route.handler.handle(request, data).await and the match on its outcome
TaskHandle(t, kind, s, adds) ==
    /\ tasks[t].pc = "handle"
    /\ tasks' = [tasks EXCEPT ![t] = AfterHandler(t, kind, s, adds)]
    /\ UNCHANGED <<routerVars, startupVars, requestVars, historyVars,
                   buf, as_uri, params, result, mounted>>

\* the loop is over: Outcome::Forward, handle_error(NotFound)
TaskExhausted(t) ==
    /\ tasks[t].pc = "route"
    /\ tasks[t].idx > Len(tasks[t].matches)
    /\ tasks' = [tasks EXCEPT ![t].delta = {},
                              ![t].response = <<BuiltinResponse(NotFound)>>,
                              ![t].sent = Sent(tasks[t].connected,
                                               <<BuiltinResponse(NotFound)>>),
                              ![t].pc = "done"]
    /\ UNCHANGED <<routerVars, startupVars, requestVars, historyVars,
                   buf, as_uri, params, result, mounted>>

ConcNext ==
    \/ \E base \in CoreMountBases, route \in MountPool : Mount(base, route)
    \/ LaunchChecked
    \/ \E t \in Tasks, method \in TaskMethods, uri \in RequestPaths :
          TaskReceive(t, method, uri)
    \/ \E t \in Tasks : TaskSetRoute(t)
    \/ \E t \in Tasks, adds \in BOOLEAN : TaskHandle(t, "Success", 0, adds)
    \/ \E t \in Tasks, adds \in BOOLEAN : TaskHandle(t, "Forward", 0, adds)
    \/ \E t \in Tasks, adds \in BOOLEAN, s \in FailStatuses :
          TaskHandle(t, "Failure", s, adds)
    \/ \E t \in Tasks : TaskExhausted(t)
    \/ \E t \in Tasks : TaskDisconnect(t)

ConcSpec == Init /\ [][ConcNext]_vars

-----------------------------------------------------------------------------
(* Properties of dispatch *)

\* the request has left Rocket::route and the match of route_and_process
PastRouting == pc \in {"handle_error", "catcher_result", "merge", "return",
                       "finish", "issue", "done"}

\* the candidates of the request in the order they are to be tried: those of
\* the method it arrived with, then, after the rewrite, those of GET
AllCandidates ==
    IF retries = 0 THEN Candidates(request.method, request.uri)
    ELSE Candidates("HEAD", request.uri) \o Candidates("GET", request.uri)

\* C2: if the first M candidates return Forward and candidate M+1 returns
\* Success, exactly those M+1 handlers are invoked, in candidate order, none
\* after the (M+1)-th, and the response is the one candidate M+1 returned.
C2_ForwardsThenSuccess ==
    \A k \in 1..Len(returned) :
        returned[k].kind = "Success" =>
            /\ k = Len(returned)
            /\ \A j \in 1..(k - 1) : returned[j].kind = "Forward"
            /\ invoked = SubSeq(AllCandidates, 1, k)
            /\ outcome = Success(NewResponse("route", invoked[k], 200))
            /\ pc \in {"merge", "return", "finish", "issue", "done"} =>
                   /\ response[1].by = <<"route", invoked[k]>>
                   /\ response[1].status = 200

C2_Witness ==
    /\ pc = "done"
    /\ retries = 0
    /\ Len(returned) = 2
    /\ returned[1].kind = "Forward"
    /\ returned[2].kind = "Success"
    /\ response[1].by = <<"route", invoked[2]>>

\* C3: when a handler returns Failure(status), no further handler is
\* invoked, the method is not rewritten for a GET retry, and handle_error is
\* called with exactly that status.
C3_FailureIsTerminal ==
    \A k \in 1..Len(returned) :
        returned[k].kind = "Failure" =>
            /\ k = Len(returned)
            /\ request.method = returned[k].method
            /\ pc # "route"
            /\ PastRouting => /\ errors = <<returned[k].code>>
                              /\ status = returned[k].code

C3_Witness ==
    /\ pc = "done"
    /\ was_head
    /\ Candidates("GET", request.uri) # << >>
    /\ Len(returned) = 1
    /\ returned[1].kind = "Failure"
    /\ returned[1].code = InternalServerError
    /\ errors = <<InternalServerError>>

\* every HEAD candidate of a HEAD request has been invoked and forwarded
HeadCandidatesForwarded ==
    LET hc == Candidates("HEAD", request.uri)
    IN  /\ was_head
        /\ Len(returned) >= Len(hc)
        /\ \A k \in 1..Len(hc) : returned[k].kind = "Forward"

\* C5: when every candidate of a HEAD request forwards (or there is none),
\* routing is retried with the method rewritten to GET exactly once, never a
\* second time, and the response finally returned has no body.
C5_HeadRetriedOnce ==
    /\ retries <= 1
    /\ HeadCandidatesForwarded =>
           /\ request.method = "HEAD" => pc \in {"route", "process"}
           /\ request.method = "GET" => retries = 1
           /\ pc = "done" => retries = 1 /\ ~response[1].body

C5_Witness ==
    /\ pc = "done"
    /\ was_head
    /\ Candidates("HEAD", request.uri) # << >>
    /\ HeadCandidatesForwarded
    /\ retries = 1
    /\ response[1].by[1] = "route"
    /\ ~response[1].body

NotFoundCatcherFailed ==
    /\ errors = <<NotFound>>
    /\ \A k \in 1..Len(returned) : returned[k].kind = "Forward"
    /\ caught # << >>
    /\ caught[1] = <<"catcher", NotFound>>
    /\ catcher_result # << >>
    /\ ~catcher_result[1].ok

C9_NotFoundWithoutRetry ==
    (/\ PastRouting
     /\ caller # "hyper_service_fn"
     /\ ~was_head
     /\ \A k \in 1..Len(returned) : returned[k].kind = "Forward") =>
        /\ errors = <<NotFound>>
        /\ status = NotFound
        /\ retries = 0
        /\ invoked = Candidates(request.method, request.uri)

C9_Witness ==
    /\ pc = "done"
    /\ ~was_head
    /\ Len(returned) = 2
    /\ \A k \in 1..Len(returned) : returned[k].kind = "Forward"
    /\ errors = <<NotFound>>
    /\ retries = 0

\* C10: in a dispatch that ends with a handler Success, the cookie delta is
\* merged into the response exactly once, also when the Success is reached
\* through the HEAD -> GET retry: no Set-Cookie header is adjoined twice.
C10_MergedOnce ==
    (/\ pc \in {"finish", "issue", "done"}
     /\ outcome # << >>
     /\ outcome[1].kind = "Success") =>
        /\ merges = 1
        /\ cookie_delta = {}
        /\ \A t \in DOMAIN response[1].cookies : response[1].cookies[t] = 1

C10_Witness ==
    /\ pc = "done"
    /\ retries = 1
    /\ outcome[1].kind = "Success"
    /\ merges = 1
    /\ DOMAIN response[1].cookies # {}

\* the dispatch ended with a handler Success and its response is complete
EndedWithSuccess ==
    /\ pc \in {"finish", "issue", "done"}
    /\ outcome # << >>
    /\ outcome[1].kind = "Success"

\* C11: in a dispatch that ends with a handler Success, the cookies merged
\* into the response are exactly those added during the winning candidate's
\* attempt; a cookie added by an earlier candidate that returned Forward is
\* not part of the response.
C11_OnlyWinnerMutations ==
    EndedWithSuccess =>
        LET k == Len(invoked)
        IN  DOMAIN response[1].cookies =
                (IF returned[k].adds THEN {invoked[k]} ELSE {})

\* the dispatch ended in Failure or in not-found and its response is complete
EndedWithError ==
    /\ pc \in {"finish", "issue", "done"}
    /\ caller = "route_and_process"
    /\ errors # << >>

InFlight == pc \notin {"idle", "done"}

\* the number of candidates of the request: those of the method it arrived
\* with plus, for a HEAD request, those of GET
CandidateCount ==
    IF was_head
    THEN Len(Candidates("HEAD", request.uri))
             + Len(Candidates("GET", request.uri))
    ELSE Len(Candidates(request.method, request.uri))

\* C13: every dispatch terminates, and each route's handler is invoked at
\* most once during it, also across the HEAD -> GET retry, so the number of
\* handler invocations is at most the number of candidates of the original
\* method plus, for a HEAD request, the number of GET candidates.
C13_TerminatesWithinCandidates ==
    /\ [](\A i, j \in 1..Len(invoked) : invoked[i] = invoked[j] => i = j)
    /\ [](Len(invoked) <= CandidateCount)
    /\ InFlight ~> (pc = "done")

C13_Witness ==
    /\ pc = "done"
    /\ was_head
    /\ retries = 1
    /\ Len(invoked) = 2
    /\ Len(invoked) = CandidateCount

\* C14: every incoming request, also one that cannot be converted into a
\* request and one whose candidates all forward, ends with exactly one
\* response issued: never zero and never two.
C14_ExactlyOneResponse ==
    /\ [](issued <= 1)
    /\ [](issued = 1 <=> pc = "done")
    /\ InFlight ~> (pc = "done" /\ issued = 1 /\ response # << >>)

C14_Witness ==
    /\ pc = "done"
    /\ caller = "hyper_service_fn"
    /\ errors = <<BadRequest>>
    /\ issued = 1

\* C15: the input given to the first candidate is the request's input, the
\* input given to each later candidate is the value carried by the previous
\* candidate's Forward, and the input given to the GET retry of a HEAD
\* request is the value carried by the last Forward.
C15_InputThreaded ==
    /\ Len(inputs) = Len(returned)
    /\ \A k \in 1..Len(inputs) :
           inputs[k] = (IF k = 1 THEN InitialData ELSE returned[k - 1].rest)
    /\ (pc = "route" /\ returned # << >>) =>
           data = returned[Len(returned)].rest

C15_Witness ==
    /\ pc = "done"
    /\ retries = 1
    /\ Len(inputs) = 2
    /\ returned[1].rest # InitialData
    /\ inputs[2] = returned[1].rest

-----------------------------------------------------------------------------
(* Properties of paths, requests and mounting *)

\* the path with one more separator put in front of position k
WithSeparator(path, k) ==
    SubSeq(path, 1, k - 1) \o <<"/">> \o SubSeq(path, k, Len(path))

\* the path without the character at position k
WithoutPosition(path, k) ==
    SubSeq(path, 1, k - 1) \o SubSeq(path, k + 1, Len(path))

\* position k of the path is at either end or next to a separator
AtBoundary(path, k) ==
    \/ k = 1
    \/ k = Len(path) + 1
    \/ path[k - 1] = "/"
    \/ path[k] = "/"

\* the separator at position k of the path is at either end or next to
\* another separator
RedundantSeparator(path, k) ==
    /\ path[k] = "/"
    /\ \/ k = 1
       \/ k = Len(path)
       \/ path[k - 1] = "/"
       \/ path[k + 1] = "/"

\* C21: for every path string, the segment sequence is unchanged by adding
\* or removing separators next to existing separators or at either end, and
\* no yielded segment is empty or contains a separator.
C21_SeparatorsCollapse ==
    (result # << >> /\ result[1] = "segments") =>
        LET path == result[2]
            segs == result[4]
        IN  /\ result[3] = "Ok"
            /\ \A k \in 1..(Len(path) + 1) :
                   (AtBoundary(path, k) /\ IsCharBoundary(path, k)) =>
                       /\ ~SegmentsPanics(WithSeparator(path, k))
                       /\ Segments(WithSeparator(path, k)) = segs
            /\ \A k \in 1..Len(path) :
                   RedundantSeparator(path, k) =>
                       /\ ~SegmentsPanics(WithoutPosition(path, k))
                       /\ Segments(WithoutPosition(path, k)) = segs
            /\ \A n \in 1..Len(segs) :
                   /\ segs[n] # << >>
                   /\ \A c \in 1..Len(segs[n]) : segs[n][c] # "/"

\* C22: mounting a route with template t at base b yields a route whose
\* segment sequence is the segments of b followed by the segments of t, with
\* no empty segment at the join, and the route is in the bucket for
\* (method, count(b) + count(t)).
C22_MountConcatenates ==
    \A m \in mounted :
        LET route == added[m.at]
            sel == <<route.method,
                     segment_count(m.base) + segment_count(m.template)>>
        IN  /\ Segments(route.path) = Segments(m.base) \o Segments(m.template)
            /\ \A n \in 1..segment_count(route.path) :
                   Segments(route.path)[n] # << >>
            /\ sel \in DOMAIN routes
            /\ \E n \in 1..Len(routes[sel]) : routes[sel][n] = route

C22_Witness ==
    /\ Len(added) = 2
    /\ \E m \in mounted :
           /\ m.at = 2
           /\ m.base = <<"/", "m", "/">>
           /\ m.template = <<"a", "/", "<", "b", ">">>
           /\ segment_count(added[2].path) = 3

RECURSIVE DynamicPositions(_, _)
DynamicPositions(tsegs, k) ==
    IF k > Len(tsegs) THEN << >>
    ELSE (IF tsegs[k][1] = "<" /\ tsegs[k][Len(tsegs[k])] = ">"
          THEN <<k>> ELSE << >>) \o DynamicPositions(tsegs, k + 1)

\* C29: before the handler of each candidate runs, the binding of the
\* request is set from that candidate and the path: the handler of route R
\* sees exactly the path segments at the dynamic positions of R, never what a
\* candidate tried before it left behind.
C29_HandlerSeesOwnBinding ==
    \A k \in 1..Len(returned) :
        LET tsegs == Segments(added[invoked[k]].path)
            psegs == Segments(request.uri)
            dyn   == DynamicPositions(tsegs, 1)
            saw   == returned[k].saw
        IN  /\ Len(saw) = 1
            /\ Len(saw[1]) = Len(dyn)
            /\ \A n \in 1..Len(dyn) : saw[1][n] = psegs[dyn[n]]

C29_Witness ==
    /\ Len(returned) = 2
    /\ returned[1].saw = << << >> >>
    /\ returned[2].saw = << << <<"a">> >> >>

\* C30: a mount whose base contains a query string or is no parsable URI
\* aborts startup, and no route of that call is added to the route table.
C30_BadBaseAborts ==
    \A m \in mounted :
        (m.base[1] # "/" \/ \E k \in 1..Len(m.base) : m.base[k] = "?") =>
            /\ phase = "aborted"
            /\ pc = "idle"
            /\ Len(added) < m.at
            /\ Cardinality({<<sel, k>> \in (DOMAIN routes) \X (1..MaxMounts) :
                                k <= Len(routes[sel])}) < m.at

C30_Witness ==
    /\ phase = "aborted"
    /\ Len(added) = 1
    /\ \E m \in mounted : m.at = 2 /\ m.base = <<"/", "?", "q">>

\* the cookies the handlers of task t added in the entries 1..n of its run
OwnCookies(t, n) ==
    {<<t, tasks[t].seen[k].route>> :
        k \in {j \in 1..n : tasks[t].seen[j].adds}}

\* the response of task t when its request is dispatched alone and its
\* handlers return what they returned
AloneResponse(t) ==
    LET h    == tasks[t].seen
        last == h[Len(h)]
    IN  IF h # << >> /\ last.kind = "Success"
        THEN [by |-> <<"route", last.route>>, status |-> 200, body |-> TRUE,
              server |-> FALSE,
              cookies |-> [c \in OwnCookies(t, Len(h)) |-> 1],
              size |-> BodySize("route", last.route)]
        ELSE [by |-> <<"builtin",
                       IF h # << >> /\ last.kind = "Failure"
                       THEN last.code ELSE 404>>,
              status |-> IF h # << >> /\ last.kind = "Failure"
                         THEN last.code ELSE 404,
              body |-> TRUE, server |-> FALSE, cookies |-> << >>,
              size |-> "n"]

\* C25: bindings and cookie deltas belong to one request: however several
\* dispatches interleave, each request has the handlers invoked, the
\* parameters seen by each handler and the final response it has when it is
\* dispatched alone.
C25_RequestScoped ==
    \A t \in Tasks :
        LET T     == tasks[t]
            h     == T.seen
            cands == Candidates(T.method, T.uri)
            psegs == Segments(T.uri)
        IN  T.pc # "idle" =>
            /\ Len(h) <= Len(cands)
            /\ \A k \in 1..Len(h) :
                   LET dyn == DynamicPositions(Segments(added[cands[k]].path), 1)
                   IN  /\ h[k].route = cands[k]
                       /\ k < Len(h) => h[k].kind = "Forward"
                       /\ Len(h[k].params) = 1
                       /\ Len(h[k].params[1]) = Len(dyn)
                       /\ \A n \in 1..Len(dyn) :
                              h[k].params[1][n] = psegs[dyn[n]]
            /\ T.pc \in {"route", "handle"} =>
                   /\ T.delta = OwnCookies(t, Len(h))
                   /\ h # << >> => h[Len(h)].kind = "Forward"
            /\ T.pc = "done" =>
                   /\ T.response = <<AloneResponse(t)>>
                   /\ (h = << >> \/ h[Len(h)].kind = "Forward") =>
                          Len(h) = Len(cands)

C25_Witness ==
    /\ tasks[1].pc = "done"
    /\ tasks[2].pc = "done"
    /\ tasks[1].uri # tasks[2].uri
    /\ Len(tasks[1].seen) = 2
    /\ tasks[1].seen[1].adds
    /\ tasks[1].seen[2].kind = "Success"
    /\ tasks[2].seen # << >>
    /\ tasks[2].seen[1].adds
    /\ tasks[2].seen[1].kind = "Success"
    /\ tasks[1].seen[2].params # tasks[2].seen[1].params

\* C27: get_param(n) returns NoKey when no parameters are bound or n is not
\* less than their number, BadParse when parameter n exists and its
\* conversion fails, and the converted value otherwise; it never crashes.
C27_GetParamTotal ==
    (result # << >> /\ result[1] = "get_param") =>
        LET n == result[2]
        IN  /\ result[3] # "panic"
            /\ (params = << >> \/ n >= Len(params[1])) => result[3] = "NoKey"
            /\ (params # << >> /\ n < Len(params[1])) =>
                   /\ result[3] \in {"Ok", "BadParse"}
                   /\ result[3] = "Ok" => result[4] = params[1][n + 1]

\* C28: get_segments(i) returns NoKey when i is not less than the segment
\* count of the path; otherwise the conversion is handed exactly the segments
\* i, i+1, ..., last of the path in order, and its failure is BadParse.
C28_GetSegmentsFromIndex ==
    (result # << >> /\ result[1] = "get_segments") =>
        LET i    == result[2]
            segs == Segments(buf.path)
        IN  /\ i >= Len(segs) => result[3] = "NoKey"
            /\ i < Len(segs) =>
                   /\ result[3] \in {"Ok", "BadParse"}
                   /\ Len(result[4]) = Len(segs) - i
                   /\ \A k \in 1..Len(result[4]) : result[4][k] = segs[i + k]

C28_Witness ==
    /\ result = <<"get_segments", 1, "Ok", << <<"a">>, <<"b">> >> >>
    /\ buf.path = <<"/", "m", "/", "a", "/", "b">>

\* C31: collisions are only reported: a launch with a route table that holds
\* colliding routes goes on to serving and startup does not fail.
C31_CollisionsOnlyReported ==
    (\E i, j \in 1..Len(added) : i < j /\ RouteCollides(added[i], added[j])) =>
        phase # "failed"

\* the hyper response that write_response sends for the response a GET
\* handler of route r produced, before dispatch touched its body
SentForGet(r) == write_response(NewResponse("route", r, 200))

C33_DisconnectAbandons ==
    \A t \in Tasks :
        /\ \A k \in 1..Len(tasks[t].seen) : tasks[t].seen[k].connected
        /\ ~tasks[t].connected =>
               /\ tasks[t].pc # "done"
               /\ tasks[t].response = << >>
               /\ tasks[t].sent = << >>

C35_HasCollisionsPerBucket ==
    (phase = "serving" /\ req = << >>) =>
        LET pairs == {ij \in (1..Len(added)) \X (1..Len(added)) :
                         /\ ij[1] < ij[2]
                         /\ Selector(added[ij[1]]) = Selector(added[ij[2]])}
        IN  /\ collisions.result <=>
                   \E ij \in pairs : RouteCollides(added[ij[1]], added[ij[2]])
            /\ \A ij \in pairs :
                   RouteCollides(added[ij[1]], added[ij[2]]) <=>
                       <<added[ij[1]], added[ij[2]]>> \in collisions.reported
            /\ \A ab \in collisions.reported :
                   Selector(ab[1]) = Selector(ab[2])

\* two routes of one bucket with a static and a dynamic last segment
C35_Witness ==
    /\ phase = "serving" /\ req = << >>
    /\ Len(added) = 2
    /\ added[1].method = added[2].method
    /\ added[1].path = <<"/", "a", "/", "b">>
    /\ added[2].path = <<"/", "a", "/", "<", "b", ">">>
    /\ collisions.result

\* C36: collision is symmetric: for all segments, paths and routes a and b,
\* a.collides_with(b) equals b.collides_with(a), also between a string and
\* a route and between a URI and a URIBuf.  The routes are compared while
\* they are added; launch and lookups add none.
C36_CollisionSymmetric ==
    phase = "startup" => \A i \in 1..Len(added) : \A j \in i..Len(added) :
           LET a == added[i]
               b == added[j]
               segs_a == Segments(a.path)
               segs_b == Segments(b.path)
           IN  /\ RouteCollides(a, b) = RouteCollides(b, a)
               /\ URICollides(a.path, b.path) = URICollides(b.path, a.path)
               /\ URIBufCollides(a.path, b.path) = URIBufCollides(b.path, a.path)
               /\ URIBufCollidesWithURI(a.path, b.path)
                      = URICollidesWithURIBuf(b.path, a.path)
               /\ StrCollidesWithRoute(a.path, b) = RouteCollidesWithStr(b, a.path)
               /\ \A k \in 1..Len(segs_a) : \A m \in 1..Len(segs_b) :
                      StrCollides(segs_a[k], segs_b[m])
                          = StrCollides(segs_b[m], segs_a[k])

\* a parameter and a static segment collide in both directions
C36_Witness ==
    /\ phase = "startup"
    /\ Len(added) = 2
    /\ added[1].method = added[2].method
    /\ added[1].path = <<"/", "a", "/", "<", "b", ">">>
    /\ added[2].path = <<"/", "a", "/", "b">>
    /\ RouteCollides(added[1], added[2])
    /\ RouteCollides(added[2], added[1])

\* C38: for every request that arrived with method HEAD, the response that
\* dispatch returns has no body, whichever way it was produced: the Success
\* of a HEAD route, the GET fallback, or a catcher; and none is sent.
C38_HeadHasNoBody ==
    (was_head /\ pc \in {"issue", "done"}) =>
        /\ response # << >>
        /\ ~response[1].body
        /\ pc = "done" => (result[1] = "sent" /\ ~result[2].body)

\* a HEAD request answered by a catcher or by the built-in generator
C38_Witness ==
    /\ was_head /\ pc = "done"
    /\ caught # << >>
    /\ response[1].by[1] # "route"
    /\ result[1] = "sent" /\ ~result[2].body

\* the catcher that handle_error invoked did not return a response, and
\* handle_error has returned
CatcherFailed ==
    /\ pc \in {"merge", "return", "finish", "issue", "done"}
    /\ catcher_result # << >>
    /\ ~catcher_result[1].ok

AddedUnder(sel) ==
    LET Under(r) == <<r.method, Len(Segments(r.path))>> = sel
    IN  SelectSeq(added, Under)

\* C23: every add puts the route at the end of the bucket of its method and
\* segment count and leaves the other buckets alone; no add is rejected or
\* merged, so after k adds the table holds k routes.
C23_AddAppends ==
    /\ DOMAIN routes =
           {<<added[k].method, Len(Segments(added[k].path))>> : k \in 1..Len(added)}
    /\ \A sel \in DOMAIN routes : routes[sel] = AddedUnder(sel)
    /\ Cardinality({<<sel, k>> \in (DOMAIN routes) \X (1..Len(added)) :
                        k <= Len(routes[sel])}) = Len(added)

C23_Witness ==
    /\ Len(added) = 2
    /\ added[1] = added[2]
    /\ routes[<<added[1].method, Len(Segments(added[1].path))>>] =
           <<added[1], added[2]>>


\* C40: after any sequence of add and mount calls every route stored in the
\* bucket keyed (m, n) has method m and exactly n segments, and its segment
\* count is in its Cell from the moment it is stored, so a lookup never sets
\* the Cell of a stored route.  Keys and counts are compared while the
\* table is built; every state, those after lookups included, has all the
\* Cells filled and none set since its route was stored.
C40_BucketsKeyedAndCounted ==
    /\ req = << >> =>
           /\ \A sel \in DOMAIN routes : \A k \in 1..Len(routes[sel]) :
                  /\ routes[sel][k].method = sel[1]
                  /\ Len(Segments(routes[sel][k].path)) = sel[2]
           /\ \A k \in 1..Len(cells) :
                  cells[k].segment_count = <<Len(Segments(added[k].path))>>
    /\ Len(cells) = Len(added)
    /\ \A k \in 1..Len(cells) :
           /\ cells[k].segment_count # << >>
           /\ cells[k].writes = 0

\* a lookup went through a bucket of two routes and found one
C40_Witness ==
    /\ req # << >> /\ matched # << >>
    /\ Len(added) = 2
    /\ Selector(added[1]) = <<req[1], segment_count(req[2])>>
    /\ Selector(added[2]) = Selector(added[1])
    /\ added[1].path # added[2].path
    /\ \A k \in 1..2 : cells[k].writes = 0 /\ cells[k].segment_count = <<1>>

\* the URI instances of the request: request.uri and the URI made from it
Instances == {buf} \cup (IF as_uri = << >> THEN {} ELSE {as_uri[1]})

\* C26: for one URI / URIBuf instance the segment count is computed by
\* scanning the path at most once: after the first segment_count() call
\* every later call returns the cached value without scanning, and the
\* cached value is the number of segments that segments() yields.
C26_CountScannedOnce ==
    /\ \A u \in Instances :
           /\ u.scans <= 1
           /\ u.calls >= 1 => u.segment_count # << >>
           /\ u.segment_count # << >> =>
                  u.segment_count[1] = Len(Segments(u.path))
    /\ (result # << >> /\ result[1] = "segment_count") =>
           result[4] = Len(Segments(buf.path))

C26_Witness ==
    /\ buf.calls >= 2
    /\ buf.scans = 1
    /\ buf.segment_count = <<2>>
    /\ as_uri # << >>
    /\ as_uri[1].calls >= 2
    /\ as_uri[1].scans = 1

-----------------------------------------------------------------------------
(* Properties of the route table *)

\* C1: every route returned by Router::route has the request's method and
\* the path's segment count, each of its static segments equals the path
\* segment at the same position, and each of its dynamic segments faces a
\* non-empty path segment.
C1_MatchedRouteFitsRequest ==
    matched # << >> =>
        LET r  == matched[1]
            rs == Segments(r.path)
            ps == Segments(req[2])
        IN  /\ r.method = req[1]
            /\ Len(rs) = Len(ps)
            /\ \A k \in 1..Len(rs) :
                   /\ IsStatic(rs[k]) => rs[k] = ps[k]
                   /\ IsDynamic(rs[k]) => ps[k] # << >>

\* positions in the add order of the routes that are candidates for the
\* request: same method, same segment count, passing the filter
CandidatePositions(method, uri) ==
    {i \in 1..Len(added) :
        /\ added[i].method = method
        /\ segment_count(added[i].path) = segment_count(uri)
        /\ RouteCollidesWithStr(added[i], uri)}

\* the candidate to try first: lowest rank, earliest added among equals
FirstByRank(method, uri) ==
    CHOOSE i \in CandidatePositions(method, uri) :
        \A j \in CandidatePositions(method, uri) :
            \/ added[i].rank < added[j].rank
            \/ added[i].rank = added[j].rank /\ i <= j

\* C4: candidates are tried in ascending rank order, ties in add order: the
\* route that routing hands to dispatch first is the lowest-ranked candidate,
\* the earliest added among those of equal rank.
C4_TriedInRankOrder ==
    matched # << >> => matched[1] = added[FirstByRank(req[1], req[2])]

\* the segments of two routes at every position
SegmentPairs(a, b) ==
    LET segs_a == Segments(a.path)
        segs_b == Segments(b.path)
    IN  {<<segs_a[k], segs_b[k]>> : k \in 1..Len(segs_a)}

SameMethodPairs ==
    {ij \in (1..Len(added)) \X (1..Len(added)) :
        /\ ij[1] < ij[2]
        /\ added[ij[1]].method = added[ij[2]].method}

\* some concrete path is matched by both templates at run time
SharePath(a, b) ==
    \E p \in Paths : RuntimeMatches(a.path, p) /\ RuntimeMatches(b.path, p)

\* every segment of the template is static
AllStatic(template) ==
    \A k \in 1..segment_count(template) : IsStatic(Segments(template)[k])

\* C17: two templates of the same method are reported as colliding exactly
\* when some concrete path is matched by both of them under the runtime
\* matching rule; two templates made only of static segments collide only
\* if their segment sequences are equal.
C17_CollisionMeansSharedPath ==
    phase = "serving" =>
        \A ij \in SameMethodPairs :
            LET a == added[ij[1]]
                b == added[ij[2]]
            IN  /\ (<<a, b>> \in collisions.reported) <=> SharePath(a, b)
                /\ (/\ AllStatic(a.path)
                    /\ AllStatic(b.path)
                    /\ <<a, b>> \in collisions.reported) =>
                       Segments(a.path) = Segments(b.path)

\* at every position one of the two segments is fully dynamic or the two
\* segments are identical
DynamicOrIdentical(a, b) ==
    \A sp \in SegmentPairs(a, b) :
        IsDynamic(sp[1]) \/ IsDynamic(sp[2]) \/ sp[1] = sp[2]

\* every segment of the template is static or is one dynamic parameter
EachStaticOrDynamic(template) ==
    LET segs == Segments(template)
    IN  \A k \in 1..Len(segs) : IsStatic(segs[k]) \/ IsDynamic(segs[k])

\* C37: no false negative on templates whose segments are each fully static
\* or fully dynamic: when some concrete path is matched by two templates of
\* the same method under the runtime matching rule, collides_with reports
\* the two as colliding.
C37_NoFalseNegative ==
    (phase = "serving" /\ req = << >>) =>
        \A ij \in SameMethodPairs :
            LET a == added[ij[1]]
                b == added[ij[2]]
            IN  (/\ EachStaticOrDynamic(a.path)
                 /\ EachStaticOrDynamic(b.path)
                 /\ SharePath(a, b)) =>
                    /\ RouteCollides(a, b)
                    /\ RouteCollides(b, a)
                    /\ <<a, b>> \in collisions.reported

\* a parameter and a static segment that both match "/b"
C37_Witness ==
    /\ phase = "serving" /\ req = << >>
    /\ Len(added) = 2
    /\ added[1].method = added[2].method
    /\ added[1].path = <<"/", "b">>
    /\ added[2].path = <<"/", "<", "a", ">">>
    /\ SharePath(added[1], added[2])
    /\ <<added[1], added[2]>> \in collisions.reported

\* C18: a segment that is only a dynamic parameter is collision-capable with
\* every segment, so two routes of the same method and segment count collide
\* whenever at each position one of the two segments is fully dynamic or the
\* two are identical ("/<a>" and "/hello" collide, "/a" and "/b" do not).
C18_DynamicCollidesWithAll ==
    /\ req = << >> => \A i, j \in 1..Len(added) :
           LET segs_i == Segments(added[i].path)
               segs_j == Segments(added[j].path)
           IN  \A k \in 1..Len(segs_i) :
                   \A m \in 1..Len(segs_j) :
                       IsDynamic(segs_i[k]) =>
                           /\ StrCollides(segs_i[k], segs_j[m])
                           /\ StrCollides(segs_j[m], segs_i[k])
    /\ phase = "serving" =>
           \A ij \in SameMethodPairs :
               LET a == added[ij[1]]
                   b == added[ij[2]]
               IN  /\ (/\ segment_count(a.path) = segment_count(b.path)
                       /\ DynamicOrIdentical(a, b)) =>
                          /\ <<a, b>> \in collisions.reported
                          /\ collisions.result
                   /\ (/\ Segments(a.path) = << <<"a">> >>
                       /\ Segments(b.path) = << <<"b">> >>) =>
                          <<a, b>> \notin collisions.reported

C18_Witness ==
    /\ phase = "serving"
    /\ Len(added) = 2
    /\ added[1].method = added[2].method
    /\ added[1].path = <<"/", "<", "a", ">">>
    /\ added[2].path = <<"/", "a", "a">>
    /\ collisions.result
    /\ <<added[1], added[2]>> \in collisions.reported

\* C19: the collision report contains a colliding pair only when the two
\* routes have equal rank; two colliding routes of different rank are not
\* reported and do not make the report positive.
C19_ReportedPairsHaveEqualRank ==
    /\ \A pair \in collisions.reported : pair[1].rank = pair[2].rank
    /\ collisions.result =>
           \E ij \in SameMethodPairs :
               /\ added[ij[1]].rank = added[ij[2]].rank
               /\ RouteCollides(added[ij[1]], added[ij[2]])

\* the route has the request's method and the path's segment count, its
\* static segments equal the path's and its other segments are dynamic
Fits(route, method, uri) ==
    LET segs  == Segments(route.path)
        psegs == Segments(uri)
    IN  /\ route.method = method
        /\ Len(segs) = Len(psegs)
        /\ \A k \in 1..Len(segs) :
               \/ IsStatic(segs[k]) /\ segs[k] = psegs[k]
               \/ IsDynamic(segs[k])

\* C20: every registered route that has the request's method and segment
\* count, whose static segments equal the path's and whose other segments
\* are dynamic, is among the candidates; when such a route exists
\* Router::route does not return None.
C20_FittingRouteIsCandidate ==
    req # << >> =>
        \A i \in 1..Len(added) :
            Fits(added[i], req[1], req[2]) =>
                /\ i \in CandidatePositions(req[1], req[2])
                /\ matched # << >>

C20_Witness ==
    /\ req # << >>
    /\ Len(added) = 2
    /\ ~Fits(added[1], req[1], req[2])
    /\ Fits(added[2], req[1], req[2])
    /\ segment_count(req[2]) = 2
    /\ IsDynamic(Segments(added[2].path)[2])
    /\ matched = <<added[2]>>

=============================================================================
